---- MODULE Spec2Model ----
(***************************************************************************)
(* Model of ckan/migration/migrate_package_activity.py: the one-off script *)
(* that walks every dataset's activity stream and stores in each Activity  *)
(* the dataset as it was at that activity's revision.                      *)
(*                                                                         *)
(* Python dicts are functions with a set of string keys as domain, lists   *)
(* are sequences, None is the record NoneVal.  The database is `db` (the   *)
(* activity.data column per activity) and `detail` (rows of                *)
(* activity_detail); the SQLAlchemy session of the running process is      *)
(* `sess` (the loaded Activity objects) and `dirty`.                       *)
(***************************************************************************)
EXTENDS Integers, Sequences, FiniteSets, TLC

VARIABLES db, detail, sess, dirty, _context, patched, args_dataset, pc,
          dataset_names, di, dataset_name, package_activity_stream, i,
          out, response, exit_status,
          nRecon, nMut, nCommit, runCommits, wipeCalls, wipeCommits,
          snap, returned, runNo, prevFull, prevKilled

vars == <<db, detail, sess, dirty, _context, patched, args_dataset, pc,
          dataset_names, di, dataset_name, package_activity_stream, i,
          out, response, exit_status,
          nRecon, nMut, nCommit, runCommits, wipeCalls, wipeCommits,
          snap, returned, runNo, prevFull, prevKilled>>

---------------------------------------------------------------------------
(* Bounds of the model *)

NumDatasets == 2
MaxEvents == 2
MaxRuns == 2

Datasets == 1..NumDatasets
AllEvents == Datasets \X (1..MaxEvents)

---------------------------------------------------------------------------
(* Python values *)

NoneVal == [none |-> TRUE]
EmptyDict == [k \in {} |-> k]
NoDataset == 0

Falsy(v) == v = NoneVal \/ v = EmptyDict
Or(v, w) == IF Falsy(v) THEN w ELSE v
Get(d, k, default) == IF k \in DOMAIN d THEN d[k] ELSE default
Del(d, k) == [j \in DOMAIN d \ {k} |-> d[j]]
Put(d, k, v) == [j \in DOMAIN d \cup {k} |-> IF j = k THEN v ELSE d[j]]

Lower(c) ==
  CASE c = "Y" -> "y"
    [] c = "N" -> "n"
    [] c = "E" -> "e"
    [] c = "S" -> "s"
    [] OTHER -> c

LowerStr(s) == [k \in DOMAIN s |-> Lower(s[k])]
Prefix1(s) == IF Len(s) = 0 THEN <<>> ELSE <<s[1]>>

---------------------------------------------------------------------------
(* The installation the script runs against *)

SiteUserId == "site-id"
SiteUserName == "site_user"

UserTable == (SiteUserId :> [name |-> SiteUserName]) @@ ("alice-id" :> [name |-> "alice"])

UserIdOf(e) ==
  IF e[2] % 3 = 1 THEN SiteUserId
  ELSE IF e[2] % 3 = 2 THEN "U-missing" ELSE "alice-id"

Hidden(e) == UserIdOf(e) = SiteUserId
RevOf(e) == 100 * e[1] + e[2]
CurrentRev == 0

Activity(e) ==
  [id |-> e, object_id |-> e[1], revision_id |-> RevOf(e), user_id |-> UserIdOf(e)]

EventsOf(d) == {e \in DOMAIN db : e[1] = d}
NumEventsOf(d) == Cardinality(EventsOf(d))

\* The payloads activities carry before the migration, by shape: no dataset
\* sub-structure, one without resources, one with an empty resources list,
\* one with a non-empty resources list.
LegacyPayload(d, shape) ==
  CASE shape = 0 -> EmptyDict
    [] shape = 1 -> [package |-> [id |-> d], actor |-> "legacy"]
    [] shape = 2 -> [package |-> [id |-> d, resources |-> <<>>], actor |-> "legacy"]
    [] OTHER -> [package |-> [id |-> d, resources |-> <<[id |-> "res"]>>],
                 actor |-> "legacy"]

\* The rows of the activity_detail table of an installation that has some
DetailRows == {"detail1", "detail2"}

package_list == [k \in 1..NumDatasets |-> k]

package_activity_list(ctx, data_dict) ==
  LET d == data_dict.id
      shown(k) == Get(ctx, "include_hidden_activity", FALSE) \/ ~Hidden(<<d, k>>)
      F[k \in 0..MaxEvents] ==
        IF k = 0 THEN <<>>
        ELSE IF k <= NumEventsOf(d) /\ shown(k)
             THEN Append(F[k - 1], Activity(<<d, k>>))
             ELSE F[k - 1]
  IN F[MaxEvents]

NotFound == [error |-> "NotFound"]

\* The history the revision tables hold: what the dataset of activity e looked
\* like at that activity's revision.
ResourcesAt(e) ==
  IF (e[1] + e[2]) % 2 = 0
  THEN <<>>
  ELSE << [id |-> "res1", revision_timestamp |-> "ts"], [id |-> "res2"] >>

\* 0: an organization with a revision timestamp, 1: organization is None,
\* 2: an organization without the timestamp, 3: no organization key
OrganizationKind(e) == (2 * (e[1] - 1) + (e[2] - 1)) % 4

OrganizationAt(e) ==
  CASE OrganizationKind(e) = 0 -> [id |-> "org", revision_timestamp |-> "ts"]
    [] OrganizationKind(e) = 1 -> NoneVal
    [] OTHER -> [id |-> "org"]

HistoryAt(d, rev) ==
  LET e == <<d, rev % 100>>
      base == [id |-> d, as_of |-> rev, resources |-> ResourcesAt(e)]
  IN IF OrganizationKind(e) = 3
     THEN base
     ELSE Put(base, "organization", OrganizationAt(e))

\* package_show with the legacy dictization installed honours
\* context['revision_id']; without it, it shows the current dataset.
package_show(ctx, data_dict) ==
  LET rev == IF patched /\ "revision_id" \in DOMAIN ctx THEN ctx.revision_id ELSE CurrentRev
  IN {NotFound, HistoryAt(data_dict.id, rev)}

---------------------------------------------------------------------------
(* Helpers of migrate_dataset *)

get_context(c) ==
  IF Falsy(c)
  THEN [model |-> "model", session |-> "Session", user |-> SiteUserName]
  ELSE c

\* the organization left as package_show returned it
StripOrganization_keep(dataset) == dataset

\* lines 116-117
StripOrganization(dataset) ==
  IF "revision_timestamp" \in DOMAIN Or(Get(dataset, "organization", NoneVal), EmptyDict)
  THEN [dataset EXCEPT !.organization = Del(@, "revision_timestamp")]
  ELSE dataset

StripResources(dataset) ==
  [dataset EXCEPT !.resources =
     [k \in DOMAIN @ |-> IF "revision_timestamp" \in DOMAIN @[k]
                         THEN Del(@[k], "revision_timestamp") ELSE @[k]]]

\* the actor taken from the activity without looking the user up
ActorName_rawid(user_id) == user_id

\* lines 122-123
ActorName(user_id) ==
  IF user_id \in DOMAIN UserTable THEN UserTable[user_id].name ELSE user_id

\* the guard as a check for a non-empty resources list
AlreadyRecorded_nonempty(data) ==
  Len(Get(Get(data, "package", EmptyDict), "resources", <<>>)) > 0

\* the guard looking for the key at the top level of the payload
AlreadyRecorded_toplevel(data) ==
  "resources" \in DOMAIN data

\* lines 132-133: u'resources' in activity_obj.data.get(u'package', {})
AlreadyRecorded(data) ==
  "resources" \in DOMAIN Get(data, "package", EmptyDict)

\* migrate_dataset without the assignment of lines 72-73
InstallLegacy_missing(p) == p

\* lines 65-73: model_dictize.package_dictize is set to the legacy
\* package_dictize_with_revisions, whatever it was before
InstallLegacy(p) == TRUE

\* the listing context without the hidden-activity flag
ListingContext_nohidden(c) ==
  get_context(c)

\* lines 78-86: the context the activity listing is called with
ListingContext(c) ==
  Put(get_context(c), "include_hidden_activity", TRUE)

\* line 107: the context package_show is called with for one activity
ShowContext(c, activity) ==
  Put(c, "revision_id", activity.revision_id)

\* a test at line 138 that never sees the pending changes
SessionIsDirty_never(d) == FALSE

\* the commit of line 139 without the test of line 138
SessionIsDirty_always(d) == TRUE

\* line 138: model.Session.dirty is truthy
SessionIsDirty(d) == d # {}

\* line 139 and line 164: model.Session.commit() writes the dirty objects
Commit(store) ==
  [e \in DOMAIN store |-> IF e \in dirty THEN sess[e] ELSE store[e]]

\* the test of line 160 without .lower()
Declined_nolower(answer) == Prefix1(answer) # <<"y">>

\* line 160: the answer does not start with y or Y
Declined(answer) == Prefix1(LowerStr(answer)) # <<"y">>

\* wipe_activity_detail() called after the if/else of lines 192-196
ReturnTo_wipe(arg) == IF arg = NoDataset THEN "all_loop" ELSE "wipe"

\* lines 192-196: where control goes when migrate_dataset returns
ReturnTo(arg) == IF arg = NoDataset THEN "all_loop" ELSE "exit"

---------------------------------------------------------------------------
(* Initial state: a database of activities with legacy payloads, no        *)
(* process started yet.                                                    *)

Init ==
  /\ \E n \in [Datasets -> 0..MaxEvents], first \in 0..3 :
       db = [ e \in {x \in AllEvents : x[2] <= n[x[1]]} |->
                LegacyPayload(e[1], (first + e[1] + e[2]) % 4) ]
  /\ detail \in {{}, DetailRows}
  /\ sess = db
  /\ dirty = {}
  /\ _context = NoneVal
  /\ patched = FALSE
  /\ args_dataset = NoDataset
  /\ pc = "boot"
  /\ dataset_names = <<>>
  /\ di = 0
  /\ dataset_name = NoDataset
  /\ package_activity_stream = <<>>
  /\ i = 0
  /\ out = {}
  /\ response = <<>>
  /\ exit_status = "none"
  /\ nRecon = 0 /\ nMut = 0 /\ nCommit = 0
  /\ runCommits = 0 /\ wipeCalls = 0 /\ wipeCommits = 0
  /\ snap = db
  /\ returned = {}
  /\ runNo = 0
  /\ prevFull = FALSE
  /\ prevKilled = FALSE

---------------------------------------------------------------------------
(* Actions *)

Running == pc \in {"main", "all_loop", "md_begin", "md_loop", "wipe"}

\* __main__, lines 168-191: a new process parses its arguments and loads the
\* configuration; it starts with an empty session and no cached context.
Start ==
  /\ pc \in {"boot", "exit", "error", "killed"}
  /\ runNo < MaxRuns
  /\ args_dataset' \in {NoDataset} \cup Datasets
  /\ pc' = "main"
  /\ runNo' = runNo + 1
  /\ prevFull' = (pc \in {"exit"} /\ args_dataset = NoDataset /\ returned = Datasets)
  /\ prevKilled' = (pc = "killed" /\ args_dataset = NoDataset)
  /\ sess' = db /\ dirty' = {}
  /\ _context' = NoneVal /\ patched' = FALSE
  /\ dataset_names' = <<>> /\ di' = 0 /\ dataset_name' = NoDataset
  /\ package_activity_stream' = <<>> /\ i' = 0
  /\ out' = {} /\ response' = <<>> /\ exit_status' = "none"
  /\ nRecon' = 0 /\ nMut' = 0 /\ nCommit' = 0
  /\ runCommits' = 0 /\ wipeCalls' = 0 /\ wipeCommits' = 0
  /\ snap' = db /\ returned' = {}
  /\ UNCHANGED <<db, detail>>

\* __main__ lines 192-193 and migrate_all_datasets lines 53-56
main_all ==
  /\ pc = "main" /\ args_dataset = NoDataset
  /\ _context' = get_context(_context)
  /\ dataset_names' = package_list
  /\ di' = 1
  /\ pc' = "all_loop"
  /\ UNCHANGED <<db, detail, sess, dirty, patched, args_dataset, dataset_name,
                 package_activity_stream, i, out, response, exit_status,
                 nRecon, nMut, nCommit, runCommits, wipeCalls, wipeCommits,
                 snap, returned, runNo, prevFull, prevKilled>>

\* __main__ lines 195-196
main_single ==
  /\ pc = "main" /\ args_dataset # NoDataset
  /\ dataset_name' = args_dataset
  /\ pc' = "md_begin"
  /\ UNCHANGED <<db, detail, sess, dirty, _context, patched, args_dataset,
                 dataset_names, di, package_activity_stream, i, out, response,
                 exit_status, nRecon, nMut, nCommit, runCommits, wipeCalls,
                 wipeCommits, snap, returned, runNo, prevFull, prevKilled>>

\* the loop of lines 57-59 walking the list from its end
migrate_all_datasets_reversed ==
  /\ pc = "all_loop"
  /\ IF di <= Len(dataset_names)
     THEN /\ dataset_name' = dataset_names[Len(dataset_names) - di + 1]
          /\ pc' = "md_begin"
     ELSE /\ pc' = "wipe"
          /\ UNCHANGED dataset_name
  /\ UNCHANGED <<db, detail, sess, dirty, _context, patched, args_dataset,
                 dataset_names, di, package_activity_stream, i, out, response,
                 exit_status, nRecon, nMut, nCommit, runCommits, wipeCalls,
                 wipeCommits, snap, returned, runNo, prevFull, prevKilled>>

\* migrate_all_datasets lines 57-59: next dataset, or return to __main__ line 194
migrate_all_datasets ==
  /\ pc = "all_loop"
  /\ IF di <= Len(dataset_names)
     THEN /\ dataset_name' = dataset_names[di]
          /\ pc' = "md_begin"
     ELSE /\ pc' = "wipe"
          /\ UNCHANGED dataset_name
  /\ UNCHANGED <<db, detail, sess, dirty, _context, patched, args_dataset,
                 dataset_names, di, package_activity_stream, i, out, response,
                 exit_status, nRecon, nMut, nCommit, runCommits, wipeCalls,
                 wipeCommits, snap, returned, runNo, prevFull, prevKilled>>

\* migrate_dataset lines 62-93: install the legacy dictization, list the
\* activities of the dataset with the hidden ones included
migrate_dataset_begin ==
  /\ pc = "md_begin"
  /\ patched' = InstallLegacy(patched)
  /\ LET context == ListingContext(_context)
         stream == package_activity_list(context, [id |-> dataset_name])
     IN /\ package_activity_stream' = stream
        /\ out' = IF Len(stream) = 0 THEN {"No activities"} ELSE {}
        /\ _context' = Put(context, "for_view", FALSE)
  /\ i' = 1
  /\ nRecon' = 0 /\ nMut' = 0 /\ nCommit' = 0
  /\ snap' = db
  /\ pc' = "md_loop"
  /\ UNCHANGED <<db, detail, sess, dirty, args_dataset, dataset_names, di,
                 dataset_name, response, exit_status, runCommits, wipeCalls,
                 wipeCommits, returned, runNo, prevFull, prevKilled>>

\* the loop body with the commit of lines 138-139 inside the loop
migrate_dataset_activity_commit_each ==
  /\ pc = "md_loop" /\ i <= Len(package_activity_stream)
  /\ LET activity == package_activity_stream[i]
         context == ShowContext(_context, activity)
     IN /\ _context' = context
        /\ nRecon' = nRecon + 1
        /\ \E shown \in package_show(context, [id |-> activity.object_id,
                                               include_tracking |-> FALSE]) :
             IF shown = NotFound
             THEN /\ pc' = "error"
                  /\ exit_status' = "exception"
                  /\ UNCHANGED <<db, sess, dirty, i, nMut, nCommit, runCommits, out>>
             ELSE LET dataset == StripResources(StripOrganization(shown))
                      actor_name == ActorName(activity.user_id)
                      data == [package |-> dataset, actor |-> actor_name]
                      activity_obj == sess[activity.id]
                  IN /\ IF AlreadyRecorded(activity_obj)
                        THEN /\ out' = out \cup {"already recorded"}
                             /\ UNCHANGED <<db, sess, dirty, nMut, nCommit, runCommits>>
                        ELSE /\ sess' = [sess EXCEPT ![activity.id] = data]
                             /\ db' = [db EXCEPT ![activity.id] = data]
                             /\ dirty' = {}
                             /\ nMut' = nMut + 1
                             /\ nCommit' = nCommit + 1
                             /\ runCommits' = runCommits + 1
                             /\ UNCHANGED out
                     /\ i' = i + 1
                     /\ UNCHANGED <<pc, exit_status>>
  /\ UNCHANGED <<detail, patched, args_dataset, dataset_names, di,
                 dataset_name, package_activity_stream, response,
                 wipeCalls, wipeCommits, snap, returned,
                 runNo, prevFull, prevKilled>>

\* migrate_dataset lines 95-137: one iteration of the loop over the activities
migrate_dataset_activity ==
  /\ pc = "md_loop" /\ i <= Len(package_activity_stream)
  /\ LET activity == package_activity_stream[i]
         context == ShowContext(_context, activity)
     IN /\ _context' = context
        /\ nRecon' = nRecon + 1
        /\ \E shown \in package_show(context, [id |-> activity.object_id,
                                               include_tracking |-> FALSE]) :
             IF shown = NotFound
             THEN /\ pc' = "error"
                  /\ exit_status' = "exception"
                  /\ UNCHANGED <<sess, dirty, i, nMut, out>>
             ELSE LET dataset == StripResources(StripOrganization(shown))
                      actor_name == ActorName(activity.user_id)
                      data == [package |-> dataset, actor |-> actor_name]
                      activity_obj == sess[activity.id]
                  IN /\ IF AlreadyRecorded(activity_obj)
                        THEN /\ out' = out \cup {"already recorded"}
                             /\ UNCHANGED <<sess, dirty, nMut>>
                        ELSE /\ sess' = [sess EXCEPT ![activity.id] = data]
                             /\ dirty' = dirty \cup {activity.id}
                             /\ nMut' = nMut + 1
                             /\ UNCHANGED out
                     /\ i' = i + 1
                     /\ UNCHANGED <<pc, exit_status>>
  /\ UNCHANGED <<db, detail, patched, args_dataset, dataset_names, di,
                 dataset_name, package_activity_stream, response, nCommit,
                 runCommits, wipeCalls, wipeCommits, snap, returned,
                 runNo, prevFull, prevKilled>>

\* migrate_dataset lines 138-141: the loop is over; commit if the session is
\* dirty, print the summary and return to the caller
migrate_dataset_commit ==
  /\ pc = "md_loop" /\ i > Len(package_activity_stream)
  /\ IF SessionIsDirty(dirty)
     THEN /\ db' = Commit(db)
          /\ dirty' = {}
          /\ nCommit' = nCommit + 1
          /\ runCommits' = runCommits + 1
          /\ out' = out \cup {"saved", "All migrated"}
     ELSE /\ out' = out \cup {"All migrated"}
          /\ UNCHANGED <<db, dirty, nCommit, runCommits>>
  /\ returned' = returned \cup {dataset_name}
  /\ pc' = ReturnTo(args_dataset)
  /\ di' = IF args_dataset = NoDataset THEN di + 1 ELSE di
  /\ exit_status' = IF pc' = "exit" THEN "0" ELSE exit_status
  /\ UNCHANGED <<detail, sess, _context, patched, args_dataset, dataset_names,
                 dataset_name, package_activity_stream, i, response, nRecon,
                 nMut, wipeCalls, wipeCommits, snap, runNo, prevFull, prevKilled>>

Responses ==
  { <<>>, <<"y">>, <<"Y">>, <<"n">>, <<"N">>, <<"Y", "E", "S">>, <<"n", "y">> }

\* wipe_activity_detail lines 144-165, then the end of __main__
wipe_activity_detail ==
  /\ pc = "wipe"
  /\ wipeCalls' = wipeCalls + 1
  /\ LET num_activity_detail_rows == Cardinality(detail)
     IN IF num_activity_detail_rows = 0
        THEN /\ out' = {"already emptied"}
             /\ UNCHANGED <<db, detail, dirty, response, wipeCommits>>
        ELSE \E answer \in Responses :
               /\ response' = answer
               /\ IF Declined(answer)
                  THEN /\ out' = {"prompt"}
                       /\ UNCHANGED <<db, detail, dirty, wipeCommits>>
                  ELSE /\ detail' = {}
                       /\ db' = Commit(db)
                       /\ dirty' = {}
                       /\ wipeCommits' = wipeCommits + 1
                       /\ out' = {"prompt", "activity_detail deleted"}
  /\ pc' = "exit"
  /\ exit_status' = "0"
  /\ UNCHANGED <<sess, _context, patched, args_dataset, dataset_names, di,
                 dataset_name, package_activity_stream, i, nRecon, nMut,
                 nCommit, runCommits, snap, returned, runNo, prevFull, prevKilled>>

\* The process is stopped from outside at any point; what it held in memory
\* is lost, the database keeps what was committed.
Kill ==
  /\ Running
  /\ pc' = "killed"
  /\ exit_status' = "killed"
  /\ sess' = db /\ dirty' = {}
  /\ _context' = NoneVal /\ patched' = FALSE
  /\ package_activity_stream' = <<>> /\ i' = 0
  /\ dataset_names' = <<>> /\ di' = 0
  /\ out' = {} /\ response' = <<>>
  /\ UNCHANGED <<db, detail, args_dataset, dataset_name, nRecon, nMut,
                 nCommit, runCommits, wipeCalls, wipeCommits, snap,
                 returned, runNo, prevFull, prevKilled>>

Next ==
  \/ Start
  \/ main_all
  \/ main_single
  \/ migrate_all_datasets
  \/ migrate_dataset_begin
  \/ migrate_dataset_activity
  \/ migrate_dataset_commit
  \/ wipe_activity_detail
  \/ Kill

Spec == Init /\ [][Next]_vars

\* A process that can take a step takes one: the script runs sequentially
\* and never waits, so a run goes on until it exits, fails or is killed.
LiveSpec == Init /\ [][Next]_vars /\ WF_vars(Next)

---------------------------------------------------------------------------
(* Vocabulary of the properties *)

\* the payload carries a resources collection under its dataset sub-structure
HasResources(data) ==
  "package" \in DOMAIN data /\ "resources" \in DOMAIN data.package

\* ... and that collection is not empty
HasNonEmptyResources(data) ==
  HasResources(data) /\ Len(data.package.resources) > 0

\* the payload is a snapshot this migration made for activity e
IsSnapshotOf(data, e) ==
  /\ DOMAIN data = {"package", "actor"}
  /\ "as_of" \in DOMAIN data.package
  /\ data.package.as_of = RevOf(e)
  /\ data.package.id = e[1]

\* this step is a completed iteration of the loop of migrate_dataset
IterationDone == pc = "md_loop" /\ pc' = "md_loop" /\ i' = i + 1

\* the activity the loop of migrate_dataset is at
Current == package_activity_stream[i].id

\* migrate_dataset has just returned normally for dataset_name
JustReturned ==
  /\ pc \in {"all_loop", "exit"}
  /\ dataset_name \in returned
  /\ wipeCalls = 0

---------------------------------------------------------------------------
(* C1: when a full migration has completed and the full migration is run   *)
(* again, no step of the second run (its start included) changes a         *)
(* persisted payload, so the payloads stay those the first run left; no    *)
(* payload is assigned, the session is never dirty and no commit is issued.*)

C1_Idempotent ==
  [][ (prevFull' /\ args_dataset' = NoDataset) =>
        /\ db' = db
        /\ sess' = db
        /\ dirty' = {}
        /\ nMut' = 0
        /\ runCommits' = 0 ]_vars

\* the second full run has completed, and the first one had attached a
\* snapshot whose resources list is empty
C1_Witness ==
  /\ prevFull /\ args_dataset = NoDataset /\ pc = "exit"
  /\ returned = Datasets
  /\ \E e \in DOMAIN db : IsSnapshotOf(db[e], e) /\ db[e].package.resources = <<>>

---------------------------------------------------------------------------
(* C2: a payload that carries a resources collection is never overwritten: *)
(* no step of any run, restarted or not, changes it in the database or in  *)
(* the session or marks it dirty, and an iteration that visits its         *)
(* activity prints the "already recorded" notice.                          *)

C2_NeverOverwritten ==
  [][ \A e \in DOMAIN db :
        HasResources(db[e]) =>
          /\ db'[e] = db[e]
          /\ sess'[e] = db[e]
          /\ e \notin dirty'
          /\ (IterationDone /\ Current = e) =>
                ("already recorded" \in out' /\ nMut' = nMut) ]_vars

\* in a restarted run the loop has visited and skipped an activity whose
\* payload held a non-empty resources list before any run
C2_Witness ==
  /\ runNo = 2 /\ pc = "md_loop" /\ i > 1
  /\ "already recorded" \in out
  /\ LET e == package_activity_stream[i - 1].id
     IN HasNonEmptyResources(db[e]) /\ db[e].actor = "legacy"

---------------------------------------------------------------------------
(* C3 as stated: an iteration skips the activity if and only if its        *)
(* payload's dataset sub-structure holds a NON-EMPTY resources collection, *)
(* and assigns the new snapshot otherwise.                                 *)

C3_SkipIffNonEmpty ==
  [][ IterationDone =>
        IF HasNonEmptyResources(sess[Current])
        THEN sess'[Current] = sess[Current] /\ nMut' = nMut
        ELSE IsSnapshotOf(sess'[Current], Current) /\ nMut' = nMut + 1 ]_vars

(* C3 amended: an iteration skips the activity if and only if its          *)
(* payload's dataset sub-structure has a resources key, empty or not; in   *)
(* all other cases (no dataset sub-structure, or one without a resources   *)
(* key) it assigns the new snapshot.                                       *)

C3_SkipIffResourcesKey ==
  [][ IterationDone =>
        IF HasResources(sess[Current])
        THEN /\ sess'[Current] = sess[Current]
             /\ nMut' = nMut /\ dirty' = dirty
             /\ "already recorded" \in out'
        ELSE /\ IsSnapshotOf(sess'[Current], Current)
             /\ nMut' = nMut + 1
             /\ Current \in dirty' ]_vars

\* the loop has skipped an activity whose payload has an empty resources
\* list, after assigning to one whose payload had no resources key
C3_Witness ==
  /\ pc = "md_loop" /\ i = 3
  /\ LET e1 == package_activity_stream[1].id
         e2 == package_activity_stream[2].id
     IN /\ ~HasResources(snap[e1]) /\ IsSnapshotOf(sess[e1], e1)
        /\ HasResources(snap[e2]) /\ snap[e2].package.resources = <<>>
        /\ sess[e2] = snap[e2]

---------------------------------------------------------------------------
(* C4: one call of migrate_dataset on a dataset with n activities of which *)
(* k already carry a resources collection assigns exactly n-k payloads,    *)
(* issues no commit while the loop is running, and on return has issued    *)
(* one commit if n-k > 0 and none if n-k = 0; never more than one.         *)

MigratedAtStart(d) == {e \in EventsOf(d) : HasResources(snap[e])}

C4_CommitBatching ==
  /\ nCommit <= 1
  /\ (pc = "md_loop" => nCommit = 0 /\ db = snap)
  /\ JustReturned =>
       LET n == NumEventsOf(dataset_name)
           k == Cardinality(MigratedAtStart(dataset_name))
       IN /\ nMut = n - k
          /\ Cardinality({e \in DOMAIN db : db[e] # snap[e]}) = n - k
          /\ nCommit = (IF n - k > 0 THEN 1 ELSE 0)
          /\ dirty = {}

\* a call has returned for a dataset with several activities, some of them
\* already migrated and some not
C4_Witness ==
  /\ JustReturned
  /\ NumEventsOf(dataset_name) >= 2
  /\ Cardinality(MigratedAtStart(dataset_name)) >= 1
  /\ nMut >= 1 /\ nCommit = 1

---------------------------------------------------------------------------
(* C5: in a full run, at every point at which the process can be killed    *)
(* (and after the kill), every activity of every dataset migrate_dataset   *)
(* has returned for carries a resources collection in the database, and    *)
(* the persisted payloads of the dataset being processed are either all as *)
(* they were before the call or all as a completed call leaves them.       *)

AsBeforeCall(d) == \A e \in EventsOf(d) : db[e] = snap[e]

AsAfterCall(d) ==
  \A e \in EventsOf(d) :
     IF HasResources(snap[e]) THEN db[e] = snap[e] ELSE IsSnapshotOf(db[e], e)

C5_AllOrNothing ==
  (args_dataset = NoDataset /\ runNo > 0) =>
    /\ \A d \in returned : \A e \in EventsOf(d) : HasResources(db[e])
    /\ dataset_name \in Datasets =>
         (AsBeforeCall(dataset_name) \/ AsAfterCall(dataset_name))

\* the process was killed inside the loop of a later dataset, after it had
\* assigned a payload in memory and before the commit
C5_Witness ==
  /\ pc = "killed" /\ args_dataset = NoDataset
  /\ returned # {} /\ runCommits > 0
  /\ dataset_name \notin returned
  /\ nMut > 0 /\ nCommit = 0
  /\ \E e \in EventsOf(dataset_name) : ~HasResources(db[e])

---------------------------------------------------------------------------
(* C6: the activity list is requested with the hidden activities included  *)
(* and holds every activity of the dataset; after a call that returns      *)
(* normally every activity of the dataset, hidden or not, carries a        *)
(* snapshot, and every payload the call assigned is the reconstruction as  *)
(* of that activity's own revision and dataset id.                         *)

C6_HiddenIncluded ==
  /\ pc = "md_loop" =>
       /\ Get(_context, "include_hidden_activity", FALSE) = TRUE
       /\ { package_activity_stream[k].id : k \in 1..Len(package_activity_stream) }
            = EventsOf(dataset_name)
       /\ \A e \in DOMAIN sess : sess[e] # snap[e] => IsSnapshotOf(sess[e], e)
  /\ JustReturned =>
       \A e \in EventsOf(dataset_name) :
          /\ HasResources(db[e])
          /\ db[e] # snap[e] => IsSnapshotOf(db[e], e)

\* a call has returned after assigning to a hidden activity and to the
\* non-hidden activity that follows it
C6_Witness ==
  /\ JustReturned
  /\ \E e \in EventsOf(dataset_name) :
       LET f == <<e[1], e[2] + 1>>
       IN /\ Hidden(e) /\ db[e] # snap[e]
          /\ f \in DOMAIN db /\ ~Hidden(f) /\ db[f] # snap[f]

---------------------------------------------------------------------------
(* C7: when package_show fails for activity i, the error leaves            *)
(* migrate_dataset (the call does not return, the process ends with the    *)
(* exception), activity i and the later ones keep their payloads, the call *)
(* has issued no commit and the database is as it was before the call.     *)

C7_FailureAttachesNothing ==
  pc = "error" =>
    /\ exit_status = "exception"
    /\ dataset_name \notin returned
    /\ wipeCalls = 0
    /\ nCommit = 0
    /\ db = snap
    /\ \A k \in i..Len(package_activity_stream) :
          sess[package_activity_stream[k].id] = snap[package_activity_stream[k].id]

\* the reconstruction of the second activity failed after the first one
\* had been assigned in memory
C7_Witness ==
  /\ pc = "error" /\ i = 2 /\ nMut = 1
  /\ sess[package_activity_stream[1].id] # snap[package_activity_stream[1].id]

---------------------------------------------------------------------------
(* C8: a call of migrate_dataset on a dataset without activities makes no  *)
(* package_show call, assigns no payload, issues no commit, prints the     *)
(* "No activities" notice and returns normally, wherever in a run it       *)
(* happens.                                                                *)

C8_EmptyDataset ==
  ( /\ dataset_name \in Datasets
    /\ NumEventsOf(dataset_name) = 0
    /\ pc \in {"md_loop", "all_loop", "exit", "error"}
    /\ wipeCalls = 0 ) =>
     /\ pc # "error"
     /\ Len(package_activity_stream) = 0
     /\ nRecon = 0 /\ nMut = 0 /\ nCommit = 0
     /\ "No activities" \in out
     /\ db = snap /\ dirty = {}
     /\ (pc # "md_loop") => (dataset_name \in returned)

\* the call for an empty dataset has returned in a process that had
\* migrated and committed another dataset before
C8_Witness ==
  /\ pc = "all_loop"
  /\ dataset_name \in returned
  /\ NumEventsOf(dataset_name) = 0
  /\ runCommits > 0
  /\ "No activities" \in out

---------------------------------------------------------------------------
(* C9: wipe_activity_detail with no rows neither prompts nor deletes nor   *)
(* commits; with rows and an answer whose first character is not y or Y    *)
(* (the empty answer included) it deletes nothing, commits nothing and the *)
(* process exits with status 0; with an answer starting with y or Y it     *)
(* deletes all rows and commits exactly once.                              *)

Affirmative(answer) == Len(answer) > 0 /\ answer[1] \in {"y", "Y"}

C9_CleanupGating ==
  [][ (pc = "wipe" /\ pc' = "exit") =>
        /\ exit_status' = "0"
        /\ db' = db
        /\ IF detail = {}
           THEN /\ "prompt" \notin out'
                /\ detail' = {}
                /\ wipeCommits' = wipeCommits
           ELSE /\ "prompt" \in out'
                /\ IF Affirmative(response')
                   THEN detail' = {} /\ wipeCommits' = wipeCommits + 1
                   ELSE detail' = detail /\ wipeCommits' = wipeCommits ]_vars

\* the rows were deleted and committed once after the answer YES
C9_Witness ==
  /\ pc = "exit" /\ wipeCalls = 1
  /\ response = <<"Y", "E", "S">>
  /\ detail = {} /\ wipeCommits = 1

---------------------------------------------------------------------------
(* C10: wipe_activity_detail starts only in a run without a dataset        *)
(* argument and only after migrate_dataset has returned normally for every *)
(* dataset of the list; at most once per run, never in a run with a        *)
(* dataset argument, never after a migration error.                        *)

C10_CleanupOrdering ==
  /\ wipeCalls <= 1
  /\ (pc = "wipe" \/ wipeCalls > 0) =>
       /\ args_dataset = NoDataset
       /\ returned = Datasets
       /\ exit_status # "exception"
  /\ (args_dataset # NoDataset) => (wipeCalls = 0 /\ pc # "wipe")
  /\ (pc = "error") => (wipeCalls = 0)

\* the cleanup has run at the end of a full run that migrated something
C10_Witness ==
  /\ pc = "exit" /\ wipeCalls = 1
  /\ args_dataset = NoDataset
  /\ runCommits > 0

---------------------------------------------------------------------------
(* C11: whatever earlier runs were stopped and restarted, a full run that  *)
(* has started ends killed, ends with an error, or exits with every        *)
(* activity of every dataset carrying a resources collection; and a call   *)
(* on a dataset whose activities were all migrated before the call only    *)
(* skips: no assignment, no commit, the database as before the call.       *)

AllMigrated == \A e \in DOMAIN db : HasResources(db[e])

MigratedBeforeCall(d) == \A e \in EventsOf(d) : HasResources(snap[e])

OnlySkips ==
  /\ (pc = "md_loop" /\ MigratedBeforeCall(dataset_name)) =>
        (nMut = 0 /\ dirty = {} /\ sess = db /\ db = snap)
  /\ (JustReturned /\ MigratedBeforeCall(dataset_name)) =>
        (nMut = 0 /\ nCommit = 0 /\ db = snap)

C11_Restartable ==
  /\ (pc = "main" /\ args_dataset = NoDataset)
        ~> (pc \in {"killed", "error"} \/ (pc = "exit" /\ AllMigrated))
  /\ []OnlySkips

\* a full run restarted after a killed full run has completed: it committed
\* something itself, and a dataset the killed run had committed was only
\* skipped over
C11_Witness ==
  /\ prevKilled /\ args_dataset = NoDataset /\ pc = "exit"
  /\ AllMigrated
  /\ runCommits > 0
  /\ Cardinality({d \in Datasets : \E e \in EventsOf(d) : IsSnapshotOf(db[e], e)})
       > runCommits

---------------------------------------------------------------------------
(* C12: the actor of every payload the migration attaches is the name of   *)
(* the user the activity's user id belongs to when there is such a user,   *)
(* and the user id itself when there is none; an activity of a missing     *)
(* user is migrated like any other.                                        *)

ExpectedActor(e) ==
  IF UserIdOf(e) \in DOMAIN UserTable
  THEN UserTable[UserIdOf(e)].name
  ELSE UserIdOf(e)

C12_ActorFallback ==
  /\ \A e \in DOMAIN sess :
       IsSnapshotOf(sess[e], e) => sess[e].actor = ExpectedActor(e)
  /\ \A e \in DOMAIN db :
       IsSnapshotOf(db[e], e) => db[e].actor = ExpectedActor(e)
  /\ pc = "md_loop" =>
       \A k \in 1..(i - 1) : HasResources(sess[package_activity_stream[k].id])
  /\ JustReturned =>
       \A e \in EventsOf(dataset_name) : HasResources(db[e])

\* a call has returned and committed a payload for an activity of a user
\* that does not exist, and one for an activity of a user that does
C12_Witness ==
  /\ JustReturned
  /\ \E e \in EventsOf(dataset_name) :
       /\ UserIdOf(e) = "U-missing" /\ db[e] # snap[e]
       /\ IsSnapshotOf(db[e], e) /\ db[e].actor = "U-missing"
  /\ \E e \in EventsOf(dataset_name) :
       /\ UserIdOf(e) = SiteUserId /\ db[e] # snap[e]
       /\ IsSnapshotOf(db[e], e) /\ db[e].actor = SiteUserName

---------------------------------------------------------------------------
(* C13: every payload the migration attaches has no revision_timestamp in  *)
(* its organization (absent, None or present) and none in any of its       *)
(* resources, and is otherwise what package_show returned for the          *)
(* activity's dataset and revision.                                        *)

Without(d, k) == [j \in DOMAIN d \ {k} |-> d[j]]

NoTimestamps(pkg) ==
  /\ ("organization" \in DOMAIN pkg) =>
        ("revision_timestamp" \notin DOMAIN pkg.organization)
  /\ \A k \in 1..Len(pkg.resources) :
        "revision_timestamp" \notin DOMAIN pkg.resources[k]

SameButTimestamps(pkg, view) ==
  /\ DOMAIN pkg = DOMAIN view
  /\ \A f \in DOMAIN view \ {"organization", "resources"} : pkg[f] = view[f]
  /\ ("organization" \in DOMAIN view) =>
        (pkg.organization = Without(view.organization, "revision_timestamp"))
  /\ Len(pkg.resources) = Len(view.resources)
  /\ \A k \in 1..Len(view.resources) :
        pkg.resources[k] = Without(view.resources[k], "revision_timestamp")

NormalizedSnapshot(data, e) ==
  /\ NoTimestamps(data.package)
  /\ SameButTimestamps(data.package, HistoryAt(e[1], RevOf(e)))

C13_Normalized ==
  /\ \A e \in DOMAIN sess :
       IsSnapshotOf(sess[e], e) => NormalizedSnapshot(sess[e], e)
  /\ \A e \in DOMAIN db :
       IsSnapshotOf(db[e], e) => NormalizedSnapshot(db[e], e)

\* the database holds attached payloads for a view whose organization had a
\* timestamp, one whose organization is None and one with a resource that
\* had a timestamp
C13_Witness ==
  /\ \E e \in DOMAIN db : IsSnapshotOf(db[e], e) /\ OrganizationKind(e) = 0
  /\ \E e \in DOMAIN db : IsSnapshotOf(db[e], e) /\ OrganizationKind(e) = 1
  /\ \E e \in DOMAIN db :
       /\ IsSnapshotOf(db[e], e)
       /\ \E k \in 1..Len(ResourcesAt(e)) :
            "revision_timestamp" \in DOMAIN ResourcesAt(e)[k]

---------------------------------------------------------------------------
(* C14 as stated: a call of migrate_dataset on a dataset whose activities  *)
(* are all migrated already always returns normally without assigning or   *)
(* committing, whatever package_show answers for their revisions.          *)

\* a call of migrate_dataset for dataset_name is running or has just ended
CallSeen ==
  /\ dataset_name \in Datasets
  /\ (pc \in {"md_loop", "error"} \/ JustReturned)

C14_GuaranteedNoOp ==
  (CallSeen /\ MigratedBeforeCall(dataset_name)) =>
     (pc # "error" /\ nMut = 0 /\ nCommit = 0)

(* C14 amended: such a call never assigns a payload and never commits; it  *)
(* returns normally when every package_show call succeeds, and when one    *)
(* fails the call ends with that error, because package_show is called     *)
(* for an activity before the guard is looked at.                          *)

C14_NoOpButMayFail ==
  (CallSeen /\ MigratedBeforeCall(dataset_name)) =>
     /\ nMut = 0 /\ nCommit = 0
     /\ dirty = {} /\ sess = db /\ db = snap
     /\ nRecon = (IF pc = "error" THEN i ELSE i - 1)
     /\ (pc = "error") => (exit_status = "exception" /\ dataset_name \notin returned)

\* the call skipped the first activity of a migrated dataset and failed in
\* package_show for the second
C14_Witness ==
  /\ pc = "error" /\ i = 2
  /\ MigratedBeforeCall(dataset_name)
  /\ "already recorded" \in out
  /\ nMut = 0

---------------------------------------------------------------------------
(* C15: when a call of migrate_dataset starts the session has no pending   *)
(* change; the pending changes are always of activities of the dataset     *)
(* being migrated, and what a call has changed in the database since it    *)
(* started are payloads of that dataset only.                              *)

C15_OneScope ==
  /\ (pc = "md_begin") => (dirty = {} /\ sess = db)
  /\ \A e \in dirty : e[1] = dataset_name /\ pc \in {"md_loop", "error"}
  /\ CallSeen => \A e \in DOMAIN db : (db[e] # snap[e]) => (e[1] = dataset_name)

\* the call for the second dataset is about to start after the first
\* dataset was assigned and committed
C15_Witness ==
  /\ pc = "md_begin" /\ di = 2
  /\ runCommits > 0 /\ nMut > 0
  /\ \E e \in EventsOf(dataset_name) : ~HasResources(db[e])

---------------------------------------------------------------------------
(* C16: inside a call the activities are handled in the order of the list, *)
(* one per iteration and each once: those before the loop index have been  *)
(* skipped or assigned, those from the index on are untouched; a full run  *)
(* calls migrate_dataset for the datasets in the order of the list, each   *)
(* once, the next only after the previous has returned.                    *)

ListedBefore(k) == {dataset_names[j] : j \in 1..(k - 1)}

C16_State ==
  /\ (pc \in {"md_loop", "error"}) =>
       /\ i \in 1..(Len(package_activity_stream) + 1)
       /\ nRecon = (IF pc = "error" THEN i ELSE i - 1)
       /\ \A k \in 1..Len(package_activity_stream) :
            LET e == package_activity_stream[k].id
            IN IF k < i THEN HasResources(sess[e]) ELSE sess[e] = snap[e]
       /\ \A k, l \in 1..Len(package_activity_stream) :
            (k # l) => (package_activity_stream[k].id # package_activity_stream[l].id)
  /\ (args_dataset = NoDataset /\ pc \in {"all_loop", "md_begin", "md_loop", "error"}) =>
       /\ returned = ListedBefore(di)
       /\ (pc # "all_loop") => (dataset_name = dataset_names[di])

C16_Step ==
  /\ IterationDone =>
       /\ nRecon' = nRecon + 1
       /\ \A e \in DOMAIN sess : (e # Current) => (sess'[e] = sess[e])
  /\ (returned' # returned /\ returned' # {}) =>
       (dataset_name \notin returned /\ returned' = returned \cup {dataset_name})

C16_Ordering == []C16_State /\ [][C16_Step]_vars

\* in the call for the second dataset of a full run the first activity has
\* been assigned and the second not yet
C16_Witness ==
  /\ args_dataset = NoDataset /\ pc = "md_loop"
  /\ di = 2 /\ returned = {dataset_names[1]}
  /\ Len(package_activity_stream) = 2 /\ i = 2
  /\ sess[package_activity_stream[1].id] # snap[package_activity_stream[1].id]
  /\ ~HasResources(sess[package_activity_stream[2].id])

---------------------------------------------------------------------------
(* C17: no step creates or deletes an activity; a step changes a persisted *)
(* payload only while migrate_dataset runs, only for an activity of the    *)
(* dataset being migrated, and only from a payload without a resources     *)
(* collection to one with it; the rows of activity_detail change only in   *)
(* wipe_activity_detail.                                                   *)

C17_Frame ==
  [][ /\ DOMAIN db' = DOMAIN db
      /\ \A e \in DOMAIN db :
           (db'[e] # db[e]) =>
              /\ pc = "md_loop"
              /\ e[1] = dataset_name
              /\ ~HasResources(db[e])
              /\ HasResources(db'[e])
      /\ (detail' # detail) => (pc = "wipe") ]_vars

\* a call has committed payloads of its dataset while another dataset still
\* has an activity without resources and activity_detail has its rows
C17_Witness ==
  /\ JustReturned /\ nCommit = 1
  /\ \E e \in DOMAIN db : e[1] # dataset_name /\ ~HasResources(db[e])
  /\ \E e \in DOMAIN db : e[1] # dataset_name /\ HasResources(db[e])
  /\ detail # {}

---------------------------------------------------------------------------
(* C18: the legacy dictization is installed whenever package_show has been *)
(* or is about to be called in the process, it stays installed until the   *)
(* process ends (so it becomes installed once per process, and the         *)
(* assignment repeated by a later call leaves it installed), and every     *)
(* payload assigned was reconstructed as of the activity's revision.       *)

C18_State ==
  /\ (pc \in {"md_loop", "error"}) => patched
  /\ (nRecon > 0 /\ pc \in {"all_loop", "md_begin", "wipe", "exit"}) => patched
  /\ \A e \in DOMAIN sess :
       (sess[e] # snap[e]) => (sess[e].package.as_of = RevOf(e))

C18_Step ==
  (patched /\ pc' \notin {"killed", "main"}) => patched'

---------------------------------------------------------------------------
(* C19: when migrate_dataset is about to list the activities of a dataset, *)
(* the shared context holds no revision_id left by an activity of a        *)
(* dataset processed before.                                               *)

C19_NoLeftoverRevision ==
  (pc = "md_begin") => ("revision_id" \notin DOMAIN ListingContext(_context))

====
